---- MODULE Spec2Model ----
(***************************************************************************)
(* Model of the SQL guardrail of chatbot_service.py: validate_sql and its  *)
(* helper is_aggregate, computed character by character on Python strings. *)
(* A Python str is a TLA+ string; a one-character string is a character.   *)
(* In TLA+ string literals "\\" denotes ONE backslash character.           *)
(***************************************************************************)
EXTENDS Integers, Sequences, FiniteSets, TLC

VARIABLES sql, schema, pc, verdict, prev, op, catalog, SCHEMA, req

vars == <<sql, schema, pc, verdict, prev, op, catalog, SCHEMA, req>>

\* the state of the validator harness, and the state of the service
vvars == <<sql, schema, pc, verdict, prev, op>>
svars == <<catalog, SCHEMA, req>>

(***************************************************************************)
(* Bounds of the explored inputs.                                          *)
(***************************************************************************)
MaxClauses == 2
MaxLimit == 2
NumReq == 2
MaxSemis == 2

(***************************************************************************)
(* Python str primitives.                                                  *)
(***************************************************************************)
Ch(s, i) == SubSeq(s, i, i)

UPPER == "ABCDEFGHIJKLMNOPQRSTUVWXYZ"
LOWER == "abcdefghijklmnopqrstuvwxyz"

UpperSet == {Ch(UPPER, i) : i \in 1..26}
LowerSet == {Ch(LOWER, i) : i \in 1..26}
ToLower == [c \in UpperSet |-> Ch(LOWER, CHOOSE i \in 1..26 : Ch(UPPER, i) = c)]
ToUpper == [c \in LowerSet |-> Ch(UPPER, CHOOSE i \in 1..26 : Ch(LOWER, i) = c)]

LowerCh(c) == IF c \in UpperSet THEN ToLower[c] ELSE c

\* stands for U+017F LATIN SMALL LETTER LONG S, which a TLA+ string cannot
\* hold: a lower-case letter (str.lower keeps it) whose str.upper is "S"
LONG_S == "$"

\* a validator that forgets to lower-case its input
lower_forgotten(s) == s

RECURSIVE lower(_)
lower(s) == IF s = "" THEN "" ELSE LowerCh(Ch(s, 1)) \o lower(Tail(s))

UpperCh(c) ==
  IF c = LONG_S THEN "S"
  ELSE IF c \in LowerSet THEN ToUpper[c]
  ELSE c

\* str.upper
RECURSIVE upper(_)
upper(s) == IF s = "" THEN "" ELSE UpperCh(Ch(s, 1)) \o upper(Tail(s))

\* upper-casing of the ASCII letters only
RECURSIVE upper_ascii(_)
upper_ascii(s) ==
  IF s = "" THEN ""
  ELSE (IF Ch(s, 1) = LONG_S THEN LONG_S ELSE UpperCh(Ch(s, 1)))
         \o upper_ascii(Tail(s))

\* Python `p in s` on strings
Contains(s, p) ==
  \E i \in 1..(Len(s) - Len(p) + 1) : SubSeq(s, i, i + Len(p) - 1) = p

\* the arguments of startswith swapped
StartsWith_swapped(s, p) == Len(p) >= Len(s) /\ SubSeq(p, 1, Len(s)) = s

\* Python s.startswith(p)
StartsWith(s, p) == Len(s) >= Len(p) /\ SubSeq(s, 1, Len(p)) = p

SpaceChars == {" ", "\t", "\n", "\r"}

\* str.strip(): s without leading and trailing whitespace
RECURSIVE strip(_)
strip(s) ==
  IF s = "" THEN s
  ELSE IF Ch(s, 1) \in SpaceChars THEN strip(Tail(s))
  ELSE IF Ch(s, Len(s)) \in SpaceChars THEN strip(SubSeq(s, 1, Len(s) - 1))
  ELSE s

\* a strip of at most one trailing ";"
rstrip_semi_once(s) ==
  IF s # "" /\ Ch(s, Len(s)) = ";" THEN SubSeq(s, 1, Len(s) - 1)
  ELSE s

\* str.rstrip(";"): s without its trailing ";" characters
RECURSIVE rstrip_semi(_)
rstrip_semi(s) ==
  IF s # "" /\ Ch(s, Len(s)) = ";" THEN rstrip_semi(SubSeq(s, 1, Len(s) - 1))
  ELSE s

\* t.split(".")[-1]: the text after the last "." (all of t when it has none)
RECURSIVE LastSeg(_)
LastSeg(t) ==
  IF ~Contains(t, ".") THEN t
  ELSE LastSeg(SubSeq(t, 1 + (CHOOSE i \in 1..Len(t) : Ch(t, i) = "."
                                   /\ \A j \in 1..(i-1) : Ch(t, j) # "."),
                      Len(t)))

\* largest e >= j-1 such that every character of s[j..e] is in cs
RunEnd(s, j, cs) ==
  CHOOSE e \in (j-1)..Len(s) :
    /\ \A k \in j..e : Ch(s, k) \in cs
    /\ (e = Len(s) \/ Ch(s, e + 1) \notin cs)

(***************************************************************************)
(* The regular expressions of validate_sql, as Python's re reads them.     *)
(* The patterns are raw strings with doubled backslashes, so each "\\" is  *)
(* an escaped, literal backslash and the letter after it is a literal:     *)
(*   rf"\\b{kw}\\b"           backslash b <kw> backslash b                 *)
(*   r"\\bfrom\\s+([\\w\\.]+)" backslash b f r o m backslash, one or more  *)
(*                            "s", then a group of one or more characters  *)
(*                            of the class { backslash, "w", "." }         *)
(***************************************************************************)
banned == <<"insert", "update", "delete", "create", "drop", "alter",
            "attach", "pragma", "copy", "truncate">>

\* re.search(rf"\\b{kw}\\b", s) is not None
re_search_banned(kw, s) == Contains(s, "\\b" \o kw \o "\\b")

\* the character class [\\w\\.]
TableClass == {"\\", "w", "."}

\* end index of the match of r"\\b<kw>\\s+([\\w\\.]+)" starting at i, 0 if none
MatchEnd(kw, s, i) ==
  LET pre == "\\b" \o kw \o "\\"
      j   == i + Len(pre)
      e1  == RunEnd(s, j, {"s"})
      e2  == RunEnd(s, e1 + 1, TableClass)
  IN IF j - 1 <= Len(s) /\ SubSeq(s, i, j - 1) = pre
        /\ e1 >= j /\ e2 >= e1 + 1
     THEN e2 ELSE 0

\* group 1 of that match
MatchGroup(kw, s, i) ==
  LET e2 == MatchEnd(kw, s, i)
      e1 == RunEnd(s, i + Len(kw) + 3, {"s"})
  IN SubSeq(s, e1 + 1, e2)

\* re.findall(r"\\b<kw>\\s+([\\w\\.]+)", s): groups of the non-overlapping
\* matches, leftmost first
RECURSIVE findall_from(_, _, _)
findall_from(kw, s, i) ==
  IF i > Len(s) THEN <<>>
  ELSE IF MatchEnd(kw, s, i) = 0 THEN findall_from(kw, s, i + 1)
  ELSE <<MatchGroup(kw, s, i)>> \o findall_from(kw, s, MatchEnd(kw, s, i) + 1)

findall(kw, s) == findall_from(kw, s, 1)

\* a marker list that also counts max( as an aggregate call
agg_keywords_max == <<"group by", "count(", "avg(", "sum(", "median(",
                      "percentile", "histogram(", "max(">>

agg_keywords == <<"group by", "count(", "avg(", "sum(", "median(",
                  "percentile", "histogram(">>

is_aggregate(sql_lc) ==
  \E k \in 1..Len(agg_keywords) : Contains(sql_lc, agg_keywords[k])

MultiMsg == "Multiple statements are not allowed."
ReadOnlyMsg == "Only read-only SELECT is allowed."
SelectMsg == "Query must start with SELECT."
\* a rejection that carries no reason
LimitMsg_empty == ""

LimitMsg == "Please include a LIMIT for non-aggregate queries."
\* a table reason that drops the leading word
TableMsg_bare(t) == t \o " is not allowed."

TableMsg(t) == "Table " \o t \o " is not allowed."

\* tables = findall(from) + findall(join), each reduced to t.split(".")[-1]
ExtractTables(sql_lc) ==
  LET raw == findall("from", sql_lc) \o findall("join", sql_lc)
  IN [k \in 1..Len(raw) |-> LastSeg(raw[k])]

\* a separator check that tolerates a trailing ";"
has_separator_trailing(sql_lc) ==
  Len(sql_lc) > 1 /\ Contains(SubSeq(sql_lc, 1, Len(sql_lc) - 1), ";")

\* ";" in sql_lc
has_separator(sql_lc) == Contains(sql_lc, ";")

\* any(re.search(rf"\\b{kw}\\b", sql_lc) for kw in banned)
has_banned(sql_lc) ==
  \E k \in 1..Len(banned) : re_search_banned(banned[k], sql_lc)

\* a limit rule that forgets to look for the limit clause
missing_limit_nolook(sql_lc) == ~is_aggregate(sql_lc)

\* not is_aggregate(sql_lc) and "limit" not in sql_lc
missing_limit(sql_lc) == ~is_aggregate(sql_lc) /\ ~Contains(sql_lc, "limit")

validate_sql(q, sch) ==
  LET sql_lc == lower(q)
      tables == ExtractTables(sql_lc)
      absent == {k \in 1..Len(tables) : tables[k] \notin DOMAIN sch}
  IN IF has_separator(sql_lc) THEN <<FALSE, MultiMsg>>
     ELSE IF has_banned(sql_lc) THEN <<FALSE, ReadOnlyMsg>>
     ELSE IF ~StartsWith(sql_lc, "select") THEN <<FALSE, SelectMsg>>
     ELSE IF absent # {}
       THEN <<FALSE, TableMsg(tables[CHOOSE k \in absent :
                                       \A m \in absent : k <= m])>>
     ELSE IF missing_limit(sql_lc) THEN <<FALSE, LimitMsg>>
     ELSE <<TRUE, "">>

(***************************************************************************)
(* Inputs.  A candidate query is a head followed by at most MaxClauses     *)
(* distinct clauses; the schema is a snapshot {table: {column: type}}.     *)
(***************************************************************************)
Heads == {"select *", "SELECT", " select", "drop table london_bike_data",
          "\\bdrop\\b", "", LONG_S \o "elect *"}

\* clauses, in the order in which a text may use them
Clauses == <<" count(*)", " updated_at", " 'a;b'",
             " from london_bike_data", " from main.london_bike_data",
             " from secret_table", " JOIN secret_table",
             " join main.secret_table", " \\bfrom\\sw",
             " \\bjoin\\ss\\.w.\\w", " \\bcopy\\b", " Drop x",
             " group by 1", " limit 5", ";">>

\* the concatenations of at most n clauses taken in order after clause k
RECURSIVE ClauseRuns(_, _)
ClauseRuns(n, k) ==
  IF n = 0 THEN {""}
  ELSE {""} \cup UNION { {Clauses[i] \o t : t \in ClauseRuns(n - 1, i)} :
                           i \in (k + 1)..Len(Clauses) }

Texts(n) == {h \o t : h \in Heads, t \in ClauseRuns(n, 0)}

ALLOWED_TABLES == <<"london_bike_data", "nyc_biking_data", "joint_bike_data">>

Columns == [start_date |-> "TIMESTAMP", duration |-> "BIGINT"]

\* snapshots of a catalog with all, or one, of the allowed tables, and the
\* snapshot a caller may pass that also has a table named "w"
Schemas ==
  { [t \in S |-> Columns] :
      S \in { {ALLOWED_TABLES[k] : k \in 1..3},
              {ALLOWED_TABLES[1]},
              {ALLOWED_TABLES[k] : k \in 1..3} \cup {"w"} } }

None == <<>>

(***************************************************************************)
(* The service: the database catalog, the module-level SCHEMA loaded from  *)
(* it, and the /ask requests in progress.                                  *)
(***************************************************************************)
Procs == 1..NumReq

\* the tables of the database file, with their columns
FullCatalog ==
  [t \in {ALLOWED_TABLES[k] : k \in 1..3} \cup {"w"} |-> Columns]

Catalogs ==
  { FullCatalog,
    [t \in {ALLOWED_TABLES[1], "w"} |-> Columns] }

\* a snapshot that also lists tables outside ALLOWED_TABLES
get_schema_snapshot_all(cat) == cat

get_schema_snapshot(cat) ==
  [t \in {ALLOWED_TABLES[k] : k \in 1..3} \cap DOMAIN cat |-> cat[t]]

NoResp == [status |-> 0, detail |-> "", sql |-> ""]

\* a request not yet received: max_rows has the default of AskRequest, llm
\* tells how the language-model call ended, conn lists what run_sql did with
\* its connection, nrows is len(df) and preview is len(data_preview)
IdleReq ==
  [pc |-> "idle", question |-> "", max_rows |-> 50, llm |-> "none",
   content |-> "", sql |-> "", sql_lc |-> "", verdict |-> None,
   ran |-> <<>>, conn |-> <<>>, nrows |-> 0, preview |-> 0, resp |-> NoResp]

Digits == "0123456789"

\* str(n) for n >= 0
RECURSIVE str(_)
str(n) == IF n < 10 THEN Ch(Digits, n + 1)
          ELSE str(n \div 10) \o Ch(Digits, (n % 10) + 1)

Init ==
  /\ sql \in Texts(MaxClauses)
  /\ schema \in Schemas
  /\ pc = "start"
  /\ verdict = None
  /\ prev = None
  /\ op = "none"
  /\ catalog = FullCatalog
  /\ SCHEMA = get_schema_snapshot(catalog)
  /\ req = [p \in Procs |-> IdleReq]

\* ok, reason = validate_sql(sql, schema)
Validate ==
  /\ pc = "start"
  /\ verdict' = validate_sql(sql, schema)
  /\ pc' = "done"
  /\ UNCHANGED <<sql, schema, prev, op, svars>>

\* the caller answers a missing-limit rejection by appending a limit clause
\* and validating again (test_require_limit_for_non_agg, test_allow_with_limit)
AddLimit(n) ==
  /\ pc = "done"
  /\ verdict = <<FALSE, LimitMsg>>
  /\ sql' = sql \o " limit " \o str(n)
  /\ prev' = verdict
  /\ verdict' = None
  /\ pc' = "start"
  /\ op' = "limit"
  /\ UNCHANGED <<schema, svars>>

\* the caller validates an accepted text again with whitespace around it
AddSpace(lead, trail) ==
  /\ pc = "done"
  /\ op = "none"
  /\ verdict = <<TRUE, "">>
  /\ lead \o trail # ""
  /\ sql' = lead \o sql \o trail
  /\ prev' = verdict
  /\ verdict' = None
  /\ pc' = "start"
  /\ op' = "space"
  /\ UNCHANGED <<schema, svars>>

\* the caller validates a text again in another letter case: str.upper,
\* str.lower, or the upper-casing of its ASCII letters only
ChangeCase(mode) ==
  /\ pc = "done"
  /\ op = "none"
  /\ sql' = CASE mode = "upper" -> upper(sql)
              [] mode = "lower" -> lower(sql)
              [] mode = "upper_ascii" -> upper_ascii(sql)
  /\ sql' # sql
  /\ mode = "upper_ascii" => upper_ascii(sql) # upper(sql)
  /\ prev' = verdict
  /\ verdict' = None
  /\ pc' = "start"
  /\ op' = IF mode = "upper" /\ upper(sql) # upper_ascii(sql)
           THEN "case_any" ELSE "case_ascii"
  /\ UNCHANGED <<schema, svars>>

Next ==
  \/ Validate
  \/ \E n \in 1..MaxLimit : AddLimit(n)
  \/ \E lead \in {"", " "}, trail \in {"", "\n"} : AddSpace(lead, trail)
  \/ \E mode \in {"upper", "lower", "upper_ascii"} : ChangeCase(mode)

Spec == Init /\ [][Next]_vars

TypeOK ==
  /\ pc \in {"start", "done", "off"}
  /\ (pc = "done") => (verdict[1] \in BOOLEAN)

(***************************************************************************)
(* A second family of candidate queries for the validator harness: heads   *)
(* that merely begin with the letters select, identifiers and literals     *)
(* that embed the word limit, aggregate calls outside the marker list, and *)
(* several absent tables in one text.                                      *)
(***************************************************************************)
KeywordHeads == {"select *", "selections", "selectx 1", "SELECT speed_limit"}

MarkerClauses == <<" speed_limit", " join hidden_t", " count (*)",
                   " max(duration)", " sum(duration)", " percentile_cont",
                   " 'no limit'", " from secret_table",
                   " from london_bike_data", " \\bjoin\\s\\w",
                   " \\bfrom\\sw.ww", " \\bcopy\\b", " limit 5">>

\* the concatenations of at most n clauses of cl taken in order after clause k
RECURSIVE RunsOf(_, _, _)
RunsOf(cl, n, k) ==
  IF n = 0 THEN {""}
  ELSE {""} \cup UNION { {cl[i] \o t : t \in RunsOf(cl, n - 1, i)} :
                           i \in (k + 1)..Len(cl) }

MarkerTexts(n) == {h \o t : h \in KeywordHeads, t \in RunsOf(MarkerClauses, n, 0)}

InitMarkers ==
  /\ sql \in MarkerTexts(MaxClauses)
  /\ schema \in Schemas
  /\ pc = "start"
  /\ verdict = None
  /\ prev = None
  /\ op = "none"
  /\ catalog = FullCatalog
  /\ SCHEMA = get_schema_snapshot(catalog)
  /\ req = [p \in Procs |-> IdleReq]

SpecMarkers == InitMarkers /\ [][Next]_vars

(***************************************************************************)
(* The /ask handler, one request per worker thread.  validate_sql runs in  *)
(* three steps, so that the steps of concurrent requests interleave: the   *)
(* lexical rules (lines 142-149), the table rule, which is the only step   *)
(* that reads the schema (150-155), and the limit rule (156-159).          *)
(***************************************************************************)

\* stands for the backquote character, which a TLA+ string cannot hold
BACKQUOTE == "~"

\* the Markdown code fence, three backquotes
FENCE == BACKQUOTE \o BACKQUOTE \o BACKQUOTE

\* positions where the pattern's head matches (IGNORECASE): the fence, the
\* letters sql and a literal backslash (the pattern has a doubled backslash
\* before its s*)
FenceStarts(text) ==
  {i \in 1..Len(text) :
     i + 6 <= Len(text)
       /\ lower(SubSeq(text, i, i + 6)) = FENCE \o "sql\\"}

\* positions of a closing fence at or after g
FenceEnds(text, g) ==
  {j \in g..Len(text) : j + 2 <= Len(text) /\ SubSeq(text, j, j + 2) = FENCE}

\* re.search(<fence>sql\\s*(.*?)<fence>, text, IGNORECASE | DOTALL): after
\* the backslash come zero or more letters s, then the shortest text up to a
\* fence; then .strip().rstrip(";")
extract_sql(text) ==
  LET GroupStart(i) == RunEnd(text, i + 7, {"s", "S"}) + 1
      ms == {i \in FenceStarts(text) : FenceEnds(text, GroupStart(i)) # {}}
  IN IF ms = {} THEN rstrip_semi(strip(text))
     ELSE LET i == CHOOSE i \in ms : \A k \in ms : i <= k
              g == GroupStart(i)
              j == CHOOSE j \in FenceEnds(text, g) :
                     \A k \in FenceEnds(text, g) : j <= k
          IN rstrip_semi(strip(SubSeq(text, g, j - 1)))

Questions == {" ", "top stations"}

\* completion.choices[0].message.content or ""
Replies ==
  {"select * from london_bike_data limit 5",
   "SELECT count(*) FROM london_bike_data;",
   "drop table london_bike_data",
   "select * \\bfrom\\sw limit 1",
   FENCE \o "sql\\ss select 1 limit 1" \o FENCE}

\* a membership test that inserts the missing key (schema.setdefault(t, {}))
schema_after_lookup_insert(sch, tables) ==
  [t \in DOMAIN sch \cup {tables[k] : k \in 1..Len(tables)} |->
     IF t \in DOMAIN sch THEN sch[t] ELSE <<>>]

\* the schema after the loop "for t in tables: if t not in schema"
schema_after_lookup(sch, tables) == sch

\* a caller that forgets to look at the verdict
verdict_ok_ignored(v) == TRUE

\* "if not ok" of ask
verdict_ok(v) == v[1]

HttpError(status, detail) == [status |-> status, detail |-> detail, sql |-> ""]

\* an emptiness test that does not strip
question_empty_exact(q) == q = ""

\* not body.question.strip()
question_empty(q) == strip(q) = ""

\* lines 441-443, for the body {question: q, max_rows: m}
Ask(p, q, m) ==
  /\ req[p].pc = "idle"
  /\ req' = [req EXCEPT ![p] =
       IF question_empty(q)
       THEN [@ EXCEPT !.question = q, !.max_rows = m, !.pc = "done",
                      !.resp = HttpError(400, "Question is empty.")]
       ELSE [@ EXCEPT !.question = q, !.max_rows = m, !.pc = "llm"]]
  /\ UNCHANGED <<vvars, catalog, SCHEMA>>

\* lines 449-456, the call raising
LLMFail(p) ==
  /\ req[p].pc = "llm"
  /\ req' = [req EXCEPT ![p] =
       [@ EXCEPT !.pc = "done", !.llm = "failed",
                 !.resp = HttpError(500, "LLM call failed: timeout")]]
  /\ UNCHANGED <<vvars, catalog, SCHEMA>>

\* lines 449-458, the call returning: sql = extract_sql(content or "")
LLMReply(p, c) ==
  /\ req[p].pc = "llm"
  /\ req' = [req EXCEPT ![p] =
       [@ EXCEPT !.content = c, !.llm = "replied", !.sql = extract_sql(c),
                 !.pc = "v_lexical"]]
  /\ UNCHANGED <<vvars, catalog, SCHEMA>>

\* validate_sql, lines 142-149
VLexical(p) ==
  /\ req[p].pc = "v_lexical"
  /\ LET sql_lc == lower(req[p].sql)
     IN req' = [req EXCEPT ![p] =
          IF has_separator(sql_lc)
          THEN [@ EXCEPT !.sql_lc = sql_lc, !.pc = "checked",
                         !.verdict = <<FALSE, MultiMsg>>]
          ELSE IF has_banned(sql_lc)
          THEN [@ EXCEPT !.sql_lc = sql_lc, !.pc = "checked",
                         !.verdict = <<FALSE, ReadOnlyMsg>>]
          ELSE IF ~StartsWith(sql_lc, "select")
          THEN [@ EXCEPT !.sql_lc = sql_lc, !.pc = "checked",
                         !.verdict = <<FALSE, SelectMsg>>]
          ELSE [@ EXCEPT !.sql_lc = sql_lc, !.pc = "v_tables"]]
  /\ UNCHANGED <<vvars, catalog, SCHEMA>>

\* validate_sql, lines 150-155, on the module-level SCHEMA
VTables(p) ==
  /\ req[p].pc = "v_tables"
  /\ LET tables == ExtractTables(req[p].sql_lc)
         absent == {k \in 1..Len(tables) : tables[k] \notin DOMAIN SCHEMA}
     IN /\ req' = [req EXCEPT ![p] =
             IF absent # {}
             THEN [@ EXCEPT !.pc = "checked",
                            !.verdict = <<FALSE,
                               TableMsg(tables[CHOOSE k \in absent :
                                                 \A m \in absent : k <= m])>>]
             ELSE [@ EXCEPT !.pc = "v_limit"]]
        /\ SCHEMA' = schema_after_lookup(SCHEMA, tables)
  /\ UNCHANGED <<vvars, catalog>>

\* validate_sql, lines 156-159
VLimit(p) ==
  /\ req[p].pc = "v_limit"
  /\ req' = [req EXCEPT ![p] =
       [@ EXCEPT !.pc = "checked",
                 !.verdict = IF missing_limit(req[p].sql_lc)
                             THEN <<FALSE, LimitMsg>> ELSE <<TRUE, "">>]]
  /\ UNCHANGED <<vvars, catalog, SCHEMA>>

\* lines 460-461
Check(p) ==
  /\ req[p].pc = "checked"
  /\ req' = [req EXCEPT ![p] =
       IF ~verdict_ok(req[p].verdict)
       THEN [@ EXCEPT !.pc = "done",
                      !.resp = HttpError(400, "SQL rejected: "
                                                \o req[p].verdict[2])]
       ELSE [@ EXCEPT !.pc = "run"]]
  /\ UNCHANGED <<vvars, catalog, SCHEMA>>

\* how a call of run_sql can end: it returns a frame, duckdb.connect raises,
\* or con.execute raises
RunOutcomes == {"ok", "connect_raises", "execute_raises"}

\* a run_sql that closes its connection only when the query succeeds
run_sql_conn_noclose(outcome) ==
  CASE outcome = "ok" -> <<"connect_ro", "execute", "close">>
    [] outcome = "connect_raises" -> <<>>
    [] outcome = "execute_raises" -> <<"connect_ro", "execute">>

\* what run_sql does with its connection: connect(read_only=True), execute
\* inside try, close inside finally
run_sql_conn(outcome) ==
  CASE outcome = "ok" -> <<"connect_ro", "execute", "close">>
    [] outcome = "connect_raises" -> <<>>
    [] outcome = "execute_raises" -> <<"connect_ro", "execute", "close">>

Min(a, b) == IF a <= b THEN a ELSE b

\* len(df.head(n)): the first n rows, or all rows but the last -n when n < 0
head_len(len, n) ==
  IF n >= 0 THEN Min(len, n)
  ELSE IF len + n > 0 THEN len + n ELSE 0

\* lines 463-476: run_sql(sql) returns a frame of n rows or raises
RunSql(p, outcome, n) ==
  /\ req[p].pc = "run"
  /\ outcome # "ok" => n = 0
  /\ req' = [req EXCEPT ![p] =
       [@ EXCEPT !.pc = "done",
                 !.ran = Append(@, req[p].sql),
                 !.conn = run_sql_conn(outcome),
                 !.nrows = n,
                 !.preview = IF outcome = "ok"
                             THEN head_len(n, Min(req[p].max_rows, 100))
                             ELSE 0,
                 !.resp = IF outcome # "ok"
                          THEN HttpError(400, "SQL execution failed: error")
                          ELSE [status |-> 200, detail |-> "",
                                sql |-> req[p].sql]]]
  /\ UNCHANGED <<vvars, catalog, SCHEMA>>

\* the service after module load: SCHEMA = get_schema_snapshot()
InitAsk ==
  /\ catalog \in Catalogs
  /\ SCHEMA = get_schema_snapshot(catalog)
  /\ req = [p \in Procs |-> IdleReq]
  /\ sql = ""
  /\ schema = SCHEMA
  /\ pc = "off"
  /\ verdict = None
  /\ prev = None
  /\ op = "none"

NextAsk ==
  \E p \in Procs :
    \/ \E q \in Questions : Ask(p, q, 50)
    \/ LLMFail(p)
    \/ \E c \in Replies : LLMReply(p, c)
    \/ VLexical(p)
    \/ VTables(p)
    \/ VLimit(p)
    \/ Check(p)
    \/ \E outcome \in {"ok", "execute_raises"} : RunSql(p, outcome, 0)

SpecAsk == InitAsk /\ [][NextAsk]_vars

(***************************************************************************)
(* One request followed through the handler, over more request bodies,     *)
(* more replies of the language model and more result sizes.               *)
(***************************************************************************)
QuestionsOne == Questions \cup {"", "\n\t"}

\* values of the max_rows field, an int without constraint (line 43)
MaxRowsValues == {-1, 0, 50, 100, 101}

\* values of len(df)
ResultSizes == {0, 1, 100, 101, 150}

\* the statements the replies carry
Statements == {"select * from london_bike_data limit 5",
               "SELECT count(*) FROM london_bike_data"}

\* k characters ";"
RECURSIVE Semis(_)
Semis(k) == IF k = 0 THEN "" ELSE ";" \o Semis(k - 1)

\* a statement with trailing semicolons, as in the examples of the system
\* prompt (lines 96-122), with whitespace around it
TrailingReplies ==
  {lead \o st \o Semis(k) \o trail :
     lead \in {"", "\n"}, st \in Statements, k \in 0..MaxSemis,
     trail \in {"", " \n"}}

\* a statement inside a Markdown fence tagged sql, alone or after prose
FencedReplies ==
  {pre \o FENCE \o tag \o "\n" \o st \o end \o "\n" \o FENCE :
     pre \in {"", "Here you go:\n"}, tag \in {"sql", "SQL"},
     st \in Statements, end \in {"", ";"}}

RepliesOne == Replies \cup TrailingReplies \cup FencedReplies \cup {""}

NextOne ==
  \E p \in {1} :
    \/ \E q \in QuestionsOne, m \in MaxRowsValues : Ask(p, q, m)
    \/ LLMFail(p)
    \/ \E c \in RepliesOne : LLMReply(p, c)
    \/ VLexical(p)
    \/ VTables(p)
    \/ VLimit(p)
    \/ Check(p)
    \/ \E outcome \in RunOutcomes, n \in ResultSizes : RunSql(p, outcome, n)

SpecOne == InitAsk /\ [][NextOne]_vars

(***************************************************************************)
(* Vocabulary of the claims: the lexical rules as the specification words  *)
(* them (whole-word keywords, identifiers after from / join).              *)
(***************************************************************************)
WordChars ==
  {Ch(LOWER, i) : i \in 1..26} \cup {Ch(UPPER, i) : i \in 1..26}
    \cup {Ch(Digits, i) : i \in 1..10} \cup {"_"}

\* w occurs in s at i with a word boundary on both sides
WholeWordAt(s, w, i) ==
  /\ i + Len(w) - 1 <= Len(s)
  /\ SubSeq(s, i, i + Len(w) - 1) = w
  /\ (i = 1 \/ Ch(s, i - 1) \notin WordChars)
  /\ (i + Len(w) - 1 = Len(s) \/ Ch(s, i + Len(w)) \notin WordChars)

HasWholeWord(s, w) == \E i \in 1..Len(s) : WholeWordAt(s, w, i)

HasBannedWord(q) == \E k \in 1..Len(banned) : HasWholeWord(lower(q), banned[k])

\* the identifiers (prefix stripped) that follow a whole word from / join and
\* whitespace in the lower-cased text
ReferencedTables(q) ==
  LET s == lower(q)
      IdChars == WordChars \cup {"."}
  IN { LastSeg(SubSeq(s, RunEnd(s, i + 4, SpaceChars) + 1,
                         RunEnd(s, RunEnd(s, i + 4, SpaceChars) + 1, IdChars))) :
         i \in { i \in 1..Len(s) :
                   /\ \E kw \in {"from", "join"} : WholeWordAt(s, kw, i)
                   /\ i + 4 <= Len(s)
                   /\ RunEnd(s, i + 4, SpaceChars) >= i + 4
                   /\ RunEnd(s, RunEnd(s, i + 4, SpaceChars) + 1, IdChars)
                        > RunEnd(s, i + 4, SpaceChars) } }

AbsentTables(q, sch) == {t \in ReferencedTables(q) : t \notin DOMAIN sch}

\* the five rejection rules as stated, by number
Violates(r, q, sch) ==
  CASE r = 1 -> Contains(q, ";")
    [] r = 2 -> HasBannedWord(q)
    [] r = 3 -> ~StartsWith(lower(q), "select")
    [] r = 4 -> AbsentTables(q, sch) # {}
    [] r = 5 -> ~is_aggregate(lower(q)) /\ ~Contains(lower(q), "limit")

Violated(q, sch) == {r \in 1..5 : Violates(r, q, sch)}

\* the verdicts rule r stands for
RuleVerdicts(r, q, sch) ==
  CASE r = 1 -> {<<FALSE, MultiMsg>>}
    [] r = 2 -> {<<FALSE, ReadOnlyMsg>>}
    [] r = 3 -> {<<FALSE, SelectMsg>>}
    [] r = 4 -> {<<FALSE, TableMsg(t)>> : t \in AbsentTables(q, sch)}
    [] r = 5 -> {<<FALSE, LimitMsg>>}

Accepted == <<TRUE, "">>

(***************************************************************************)
(* Claims.                                                                 *)
(***************************************************************************)

\* C1: every text containing ";" anywhere (inside a literal, or as its last
\* character) is rejected with the multiple-statements reason, for every schema
C1_SeparatorRejected ==
  (pc = "done" /\ Contains(sql, ";")) => verdict = <<FALSE, MultiMsg>>

C1_Witness ==
  /\ pc = "done"
  /\ sql = "select * from london_bike_data;"
  /\ verdict = <<FALSE, MultiMsg>>

\* C2: every text without ";" that has a banned keyword as a whole word, in
\* any casing, is rejected with the read-only reason
C2_BannedRejected ==
  (pc = "done" /\ ~Contains(sql, ";") /\ HasBannedWord(sql))
    => verdict = <<FALSE, ReadOnlyMsg>>

\* C3: a text passing rules 1-3 that names, after from or join, a table that
\* is not a schema key is rejected with the reason naming that table
C3_AbsentTableRejected ==
  (pc = "done" /\ Violated(sql, schema) \cap {1, 2, 3} = {}
     /\ AbsentTables(sql, schema) # {})
    => verdict \in RuleVerdicts(4, sql, schema)

\* C4: a text passing rules 1-2 whose trimmed, lower-cased text does not begin
\* with select is rejected with the statement-shape reason
C4_ShapeRejected ==
  (pc = "done" /\ ~Contains(sql, ";") /\ ~HasBannedWord(sql)
     /\ ~StartsWith(strip(lower(sql)), "select"))
    => verdict = <<FALSE, SelectMsg>>

\* C5: a text passing rules 1-4 that is not aggregate and has no limit clause
\* is rejected with the missing-limit reason
C5_MissingLimitRejected ==
  (pc = "done" /\ Violated(sql, schema) \cap {1, 2, 3, 4} = {}
     /\ ~is_aggregate(lower(sql)) /\ ~Contains(lower(sql), "limit"))
    => verdict = <<FALSE, LimitMsg>>

\* C6: a text rejected with the missing-limit reason is accepted once a limit
\* clause " limit <n>" is appended to it, for the same schema
C6_LimitFlipsVerdict ==
  (pc = "done" /\ op = "limit" /\ prev = <<FALSE, LimitMsg>>)
    => verdict = Accepted

C6_Witness ==
  /\ pc = "done"
  /\ op = "limit"
  /\ prev = <<FALSE, LimitMsg>>
  /\ sql = "select * from london_bike_data limit 2"
  /\ verdict = Accepted

\* C7: a text passing rules 1-4 that contains a grouping or aggregate marker
\* is accepted even without a limit clause
C7_AggregateAccepted ==
  (pc = "done" /\ Violated(sql, schema) \cap {1, 2, 3, 4} = {}
     /\ is_aggregate(lower(sql)))
    => verdict = Accepted

\* C8: when a text violates more than one rule, the reason returned is the
\* reason of the lowest-numbered violated rule
C8_FirstRuleWins ==
  (pc = "done" /\ Cardinality(Violated(sql, schema)) > 1)
    => verdict \in RuleVerdicts(CHOOSE r \in Violated(sql, schema) :
                                  \A m \in Violated(sql, schema) : r <= m,
                                sql, schema)

\* C9: when none of the five rejection rules fires the verdict is exactly
\* (True, "")
C9_AcceptanceComplete ==
  (pc = "done" /\ Violated(sql, schema) = {}) => verdict = Accepted

\* C10: the verdict is a pair of a boolean and a reason, and the reason is
\* empty if and only if the verdict is an acceptance
C10_ReasonEmptyIffAccepted ==
  pc = "done" =>
    /\ Len(verdict) = 2
    /\ verdict[1] \in BOOLEAN
    /\ (verdict[2] = "") <=> (verdict[1] = TRUE)

C10_Witness ==
  /\ pc = "done"
  /\ sql = "select * from london_bike_data"
  /\ verdict[1] = FALSE
  /\ verdict[2] # ""

\* C11: every rejected verdict carries one of exactly five reason forms
C11_FiveReasonForms ==
  (pc = "done" /\ verdict[1] = FALSE) =>
    \/ verdict[2] \in {"Multiple statements are not allowed.",
                       "Only read-only SELECT is allowed.",
                       "Query must start with SELECT.",
                       "Please include a LIMIT for non-aggregate queries."}
    \/ /\ StartsWith(verdict[2], "Table ")
       /\ Len(verdict[2]) >= Len("Table  is not allowed.")
       /\ SubSeq(verdict[2], Len(verdict[2]) - Len(" is not allowed.") + 1,
                 Len(verdict[2])) = " is not allowed."

C11_Witness ==
  /\ pc = "done"
  /\ sql = "select * \\bfrom\\sw"
  /\ "w" \notin DOMAIN schema
  /\ verdict = <<FALSE, "Table w is not allowed.">>

\* C12: validate_sql returns a verdict for every string, the empty string and
\* non-SQL text included, and the empty string is rejected with the
\* statement-shape reason
C12_TotalOnStrings ==
  /\ pc = "start" => Len(validate_sql(sql, schema)) = 2
  /\ pc = "done" => (Len(verdict) = 2 /\ verdict[1] \in BOOLEAN)
  /\ (pc = "done" /\ sql = "")
       => verdict = <<FALSE, "Query must start with SELECT.">>

C12_Witness ==
  /\ pc = "done"
  /\ sql = ""
  /\ verdict = <<FALSE, "Query must start with SELECT.">>

\* C14: a text in which banned keywords occur only inside longer words is not
\* rejected with the read-only reason
C14_WholeWordsOnly ==
  (pc = "done"
     /\ (\E k \in 1..Len(banned) : Contains(lower(sql), banned[k]))
     /\ ~HasBannedWord(sql))
    => verdict # <<FALSE, ReadOnlyMsg>>

\* the identifiers, prefix included, that follow a whole word from / join
ReferencedNames(q) ==
  LET s == lower(q)
      IdChars == WordChars \cup {"."}
  IN { SubSeq(s, RunEnd(s, i + 4, SpaceChars) + 1,
                 RunEnd(s, RunEnd(s, i + 4, SpaceChars) + 1, IdChars)) :
         i \in { i \in 1..Len(s) :
                   /\ \E kw \in {"from", "join"} : WholeWordAt(s, kw, i)
                   /\ i + 4 <= Len(s)
                   /\ RunEnd(s, i + 4, SpaceChars) >= i + 4
                   /\ RunEnd(s, RunEnd(s, i + 4, SpaceChars) + 1, IdChars)
                        > RunEnd(s, i + 4, SpaceChars) } }

\* C15: a text passing rules 1-3 whose from / join identifiers are qualified
\* passes the table rule exactly when every part after the last "." is a
\* schema key, and otherwise the reason names an unqualified absent part
C15_PrefixStripped ==
  (pc = "done" /\ Violated(sql, schema) \cap {1, 2, 3} = {}
     /\ \E n \in ReferencedNames(sql) : Contains(n, "."))
    => IF \A n \in ReferencedNames(sql) : LastSeg(n) \in DOMAIN schema
       THEN verdict \in {Accepted, <<FALSE, LimitMsg>>}
       ELSE \E n \in ReferencedNames(sql) :
              /\ LastSeg(n) \notin DOMAIN schema
              /\ verdict = <<FALSE, TableMsg(LastSeg(n))>>

\* C16: an accepted text is still accepted with leading and / or trailing
\* whitespace added
C16_TrimmedShape ==
  (pc = "done" /\ op = "space" /\ prev = Accepted) => verdict = Accepted

\* C17: changing the letter case of any characters of the text leaves the
\* verdict unchanged
C17_CaseInsensitive ==
  (pc = "done" /\ op \in {"case_ascii", "case_any"}) => verdict = prev

\* C17 as amended: changing the case of ASCII letters of the text leaves the
\* verdict unchanged
C17_AsciiCaseInsensitive ==
  (pc = "done" /\ op = "case_ascii") => verdict = prev

C17_Witness ==
  /\ pc = "done"
  /\ op = "case_ascii"
  /\ sql = "SELECT * FROM LONDON_BIKE_DATA LIMIT 5"
  /\ prev = Accepted
  /\ verdict = Accepted

\* C13: in a request run_sql is called only with the exact text that
\* validate_sql accepted in that request; a rejected text is never run and the
\* request ends with HTTP 400 "SQL rejected: <reason>"
C13_RunOnlyAfterAccept ==
  \A p \in Procs :
    /\ req[p].ran # <<>> =>
         /\ req[p].ran = <<req[p].sql>>
         /\ req[p].verdict = <<TRUE, "">>
         /\ req[p].sql_lc = lower(req[p].sql)
    /\ (Len(req[p].verdict) = 2 /\ req[p].verdict[1] = FALSE) =>
         /\ req[p].ran = <<>>
         /\ req[p].pc \in {"checked", "done"}
         /\ req[p].pc = "done" =>
              req[p].resp = [status |-> 400, sql |-> "",
                             detail |-> "SQL rejected: " \o req[p].verdict[2]]

C13_Witness ==
  /\ req[1].pc = "done"
  /\ req[1].ran = <<"select * from london_bike_data limit 5">>
  /\ req[1].resp.status = 200
  /\ req[2].pc = "done"
  /\ req[2].sql = "drop table london_bike_data"
  /\ req[2].ran = <<>>
  /\ req[2].resp.detail = "SQL rejected: Query must start with SELECT."

\* C19: no step of validate_sql, and no step of a request handler, changes
\* the schema: SCHEMA stays the snapshot loaded at module load, and no query
\* has been run by a request that is still validating
C19_NoSideEffects ==
  [][/\ SCHEMA' = SCHEMA
     /\ SCHEMA = get_schema_snapshot(catalog)
     /\ \A p \in Procs :
          req[p].pc \in {"v_lexical", "v_tables", "v_limit"} =>
            (req[p].ran = <<>> /\ req'[p].ran = <<>>)]_vars

C19_Witness ==
  /\ req[1].pc = "checked"
  /\ req[1].verdict = <<FALSE, "Table w is not allowed.">>
  /\ req[2].pc = "checked"
  /\ req[2].verdict = <<TRUE, "">>
  /\ SCHEMA = get_schema_snapshot(catalog)

\* the verdict of validate_sql run alone on the snapshot of catalog c, for
\* each text a request can extract
AloneVerdict ==
  [c \in Catalogs |->
     [t \in {extract_sql(r) : r \in Replies} |->
        validate_sql(t, get_schema_snapshot(c))]]

\* C20: however the steps of concurrent validations interleave, each one
\* returns the verdict validate_sql gives for its text on the loaded snapshot
\* when run alone, and the schema is not modified
C20_InterleavingSafe ==
  /\ SCHEMA = get_schema_snapshot(catalog)
  /\ \A p \in Procs :
       Len(req[p].verdict) = 2 =>
         req[p].verdict = AloneVerdict[catalog][req[p].sql]

C20_Witness ==
  /\ req[1].pc = "v_limit"
  /\ req[2].pc = "checked"
  /\ req[2].sql = "select * \\bfrom\\sw limit 1"
  /\ req[2].verdict = <<FALSE, "Table w is not allowed.">>

\* "limit" occurs in the lower-cased text at i as a word of its own outside a
\* string literal
LimitClauseAt(s, i) ==
  /\ WholeWordAt(s, "limit", i)
  /\ Cardinality({j \in 1..(i - 1) : Ch(s, j) = "'"}) % 2 = 0

\* C21: a non-aggregate text that passes rules 1-4 and has "limit" only inside
\* an identifier or a string literal is accepted
C21_EmbeddedLimitAccepted ==
  (pc = "done" /\ Violated(sql, schema) \cap {1, 2, 3, 4} = {}
     /\ ~is_aggregate(lower(sql))
     /\ Contains(lower(sql), "limit")
     /\ \A i \in 1..Len(sql) : ~LimitClauseAt(lower(sql), i))
    => verdict = Accepted

\* C22: a lower-cased text is classified aggregate exactly when it contains
\* one of the seven markers; a text with none of them and no limit is not
\* accepted, and only such a text gets the missing-limit reason
C22_AggregateIffMarker ==
  LET marked == \E m \in {"group by", "count(", "avg(", "sum(", "median(",
                          "percentile", "histogram("} :
                  Contains(lower(sql), m)
  IN /\ is_aggregate(lower(sql)) <=> marked
     /\ (pc = "done" /\ ~marked /\ ~Contains(lower(sql), "limit"))
          => verdict[1] = FALSE
     /\ (pc = "done" /\ verdict = <<FALSE, LimitMsg>>) => ~marked

C22_Witness ==
  /\ pc = "done"
  /\ sql = "select * count (*) max(duration)"
  /\ ~is_aggregate(lower(sql))
  /\ verdict = <<FALSE, LimitMsg>>

\* C24: a text passing rules 1-2 whose first word is a longer word beginning
\* with select is rejected with the statement-shape reason
C24_KeywordRequired ==
  (pc = "done" /\ ~Contains(sql, ";") /\ ~HasBannedWord(sql)
     /\ StartsWith(lower(sql), "select")
     /\ Len(sql) > 6 /\ Ch(sql, 7) \in WordChars)
    => verdict = <<FALSE, SelectMsg>>

\* the elements of a set of positions in increasing order
RECURSIVE Ascending(_)
Ascending(S) ==
  IF S = {} THEN <<>>
  ELSE LET m == CHOOSE m \in S : \A k \in S : m <= k
       IN <<m>> \o Ascending(S \ {m})

\* the identifiers (prefix stripped) that follow the whole word kw and
\* whitespace in the lower-cased text, in textual order
ReferencedAfter(kw, q) ==
  LET s == lower(q)
      IdChars == WordChars \cup {"."}
      at == Ascending({ i \in 1..Len(s) :
                   /\ WholeWordAt(s, kw, i)
                   /\ i + 4 <= Len(s)
                   /\ RunEnd(s, i + 4, SpaceChars) >= i + 4
                   /\ RunEnd(s, RunEnd(s, i + 4, SpaceChars) + 1, IdChars)
                        > RunEnd(s, i + 4, SpaceChars) })
  IN [k \in 1..Len(at) |->
        LastSeg(SubSeq(s, RunEnd(s, at[k] + 4, SpaceChars) + 1,
                       RunEnd(s, RunEnd(s, at[k] + 4, SpaceChars) + 1,
                              IdChars)))]

\* C30: a text passing rules 1-3 that references several absent tables is
\* rejected with the reason naming the first absent one in the list of the
\* from-identifiers followed by the join-identifiers
C30_FirstAbsentNamed ==
  (pc = "done" /\ Violated(sql, schema) \cap {1, 2, 3} = {}
     /\ Cardinality(AbsentTables(sql, schema)) > 1)
    => LET refs == ReferencedAfter("from", sql) \o ReferencedAfter("join", sql)
           first == CHOOSE k \in 1..Len(refs) :
                      /\ refs[k] \notin DOMAIN schema
                      /\ \A m \in 1..(k - 1) : refs[m] \in DOMAIN schema
       IN verdict = <<FALSE, TableMsg(refs[first])>>

\* the identifiers validate_sql extracts from each text a request can carry
ExtractedOf ==
  [t \in {extract_sql(r) : r \in Replies} |-> ExtractTables(lower(t))]

\* C23: the keys of the service's SCHEMA are allowlisted names, an allowlisted
\* name is a key exactly when the catalog has that table, and a text passes
\* the table rule only if every identifier extracted from it is allowlisted
C23_SnapshotAllowlisted ==
  LET allow == {"london_bike_data", "nyc_biking_data", "joint_bike_data"}
  IN /\ DOMAIN SCHEMA \subseteq allow
     /\ \A t \in allow : t \in DOMAIN SCHEMA <=> t \in DOMAIN catalog
     /\ \A p \in Procs :
          (\/ req[p].pc = "v_limit"
           \/ req[p].verdict \in {Accepted, <<FALSE, LimitMsg>>})
            => \A k \in 1..Len(ExtractedOf[req[p].sql]) :
                 ExtractedOf[req[p].sql][k] \in allow

C23_Witness ==
  /\ "w" \in DOMAIN catalog
  /\ "nyc_biking_data" \notin DOMAIN catalog
  /\ DOMAIN SCHEMA = {"london_bike_data"}
  /\ req[1].sql = "select * \\bfrom\\sw limit 1"
  /\ req[1].verdict = <<FALSE, "Table w is not allowed.">>
  /\ req[2].verdict = Accepted

\* C25: the data_preview of a successful response has at most
\* min(max_rows, 100) rows and at most 100 rows
C25_PreviewBounded ==
  \A p \in Procs :
    (req[p].pc = "done" /\ req[p].resp.status = 200) =>
      /\ req[p].preview <= Min(req[p].max_rows, 100)
      /\ req[p].preview <= 100

\* C26: extract_sql never returns a text ending in ";", and from a reply that
\* is one statement followed by semicolons, with whitespace around, it returns
\* the statement, which has no ";" and is not rejected as multiple statements
C26_TrailingSemisStripped ==
  \A p \in Procs :
    req[p].llm = "replied" =>
      /\ req[p].sql = "" \/ Ch(req[p].sql, Len(req[p].sql)) # ";"
      /\ \A st \in {"select * from london_bike_data limit 5",
                    "SELECT count(*) FROM london_bike_data"} :
           \A k \in 1..MaxSemis :
             \A lead \in {"", "\n"}, trail \in {"", " \n"} :
               req[p].content = lead \o st \o Semis(k) \o trail =>
                 /\ req[p].sql = st
                 /\ ~Contains(req[p].sql, ";")
                 /\ req[p].verdict # <<FALSE, MultiMsg>>

C26_Witness ==
  /\ req[1].content = "\nSELECT count(*) FROM london_bike_data;; \n"
  /\ req[1].sql = "SELECT count(*) FROM london_bike_data"
  /\ req[1].pc = "done"
  /\ req[1].resp.status = 200

\* C27: from a reply holding a fenced block tagged sql, in any casing of the
\* tag, extract_sql returns the trimmed text inside the fence without a
\* trailing ";"; from a reply without a fence, the whole trimmed reply
C27_FenceContentExtracted ==
  \A p \in Procs :
    req[p].llm = "replied" =>
      /\ \A st \in {"select * from london_bike_data limit 5",
                    "SELECT count(*) FROM london_bike_data"} :
           \A pre \in {"", "Here you go:\n"}, tag \in {"sql", "SQL"},
              end \in {"", ";"} :
             req[p].content
                 = pre \o FENCE \o tag \o "\n" \o st \o end \o "\n" \o FENCE
               => req[p].sql = st
      /\ ~Contains(req[p].content, FENCE) =>
           \/ req[p].sql = strip(req[p].content)
           \/ /\ req[p].sql # strip(req[p].content)
              /\ StartsWith(strip(req[p].content), req[p].sql)

\* C28: a finished request has exactly one of five outcomes, decided in
\* order: empty question (400, before any model call), failed model call
\* (500), rejected query (400), failed execution (400), or the response with
\* the executed sql; in the first three nothing was run
C28_FiveOutcomes ==
  \A p \in Procs :
    req[p].pc = "done" =>
      LET r == req[p]
          blank == \A i \in 1..Len(r.question) :
                     Ch(r.question, i) \in {" ", "\t", "\n", "\r"}
          rejected == Len(r.verdict) = 2 /\ r.verdict[1] = FALSE
          accepted == r.verdict = <<TRUE, "">>
      IN \/ /\ blank
            /\ r.resp = [status |-> 400, detail |-> "Question is empty.",
                         sql |-> ""]
            /\ r.llm = "none" /\ r.ran = <<>>
         \/ /\ ~blank /\ r.llm = "failed"
            /\ r.resp.status = 500
            /\ r.verdict = None /\ r.ran = <<>>
         \/ /\ ~blank /\ r.llm = "replied" /\ rejected
            /\ r.resp = [status |-> 400, sql |-> "",
                         detail |-> "SQL rejected: " \o r.verdict[2]]
            /\ r.ran = <<>>
         \/ /\ ~blank /\ r.llm = "replied" /\ accepted
            /\ r.ran = <<r.sql>>
            /\ r.resp.status = 400
            /\ StartsWith(r.resp.detail, "SQL execution failed: ")
         \/ /\ ~blank /\ r.llm = "replied" /\ accepted
            /\ r.ran = <<r.sql>>
            /\ r.resp = [status |-> 200, detail |-> "", sql |-> r.sql]

C28_Witness ==
  /\ req[1].pc = "done"
  /\ req[1].question = "\n\t"
  /\ req[1].llm = "none"
  /\ req[1].resp.detail = "Question is empty."

\* C29: every call of run_sql that opened a connection opened it read-only and
\* closed it before returning, whether the query succeeded or raised; no
\* request leaves an open connection behind
C29_ConnectionClosed ==
  \A p \in Procs :
    /\ req[p].ran = <<>> => req[p].conn = <<>>
    /\ req[p].conn # <<>> =>
         /\ req[p].conn[1] = "connect_ro"
         /\ req[p].conn[Len(req[p].conn)] = "close"
         /\ Cardinality({k \in 1..Len(req[p].conn) :
                           req[p].conn[k] = "connect_ro"})
              = Cardinality({k \in 1..Len(req[p].conn) :
                               req[p].conn[k] = "close"})

C29_Witness ==
  /\ req[1].pc = "done"
  /\ req[1].resp.detail = "SQL execution failed: error"
  /\ req[1].conn = <<"connect_ro", "execute", "close">>
  /\ req[2].pc = "done"
  /\ req[2].resp.status = 200
  /\ req[2].conn = <<"connect_ro", "execute", "close">>

====
